---- MODULE Spec2Model ----
(***************************************************************************)
(* Model of go-template-static: Parse (templatestatic.go, lines 114-204)   *)
(* with findPlacedTemplates, walkTree, injectBeforeCloseHead, injectInList *)
(* and writeIfChanged.                                                      *)
(*                                                                         *)
(* Strings and byte slices are sequences of tokens (a token is a short run *)
(* of bytes that the code never splits); template names are token          *)
(* sequences too, so that HasPrefix / TrimPrefix / Index are computed.     *)
(* A parse tree is the sequence of nodes of its root list.  Trees live in  *)
(* a heap, a namespace (template set) maps names to heap addresses, so     *)
(* that sharing between a template and its clone is expressible.           *)
(***************************************************************************)
EXTENDS Integers, Sequences, FiniteSets, TLC

\* ------------------------------------------------------------------ bounds
\* Number of Parse calls in one behaviour.
MaxCalls == 2
\* Nesting depth of {{template}} calls the engine executes before it gives up.
MaxExecDepth == 4

\* ----------------------------------------------------------------- strings
PrefixCSS == <<"static-css-">>
PrefixJS == <<"static-js-">>
\* The closing head marker "</head>", two tokens so that a partial match exists.
CloseHead == <<"</", "head>">>

\* strings.HasPrefix
HasPrefix(s, prefix) ==
    /\ Len(s) >= Len(prefix)
    /\ SubSeq(s, 1, Len(prefix)) = prefix

\* strings.TrimPrefix
TrimPrefix(s, prefix) ==
    IF HasPrefix(s, prefix) THEN SubSeq(s, Len(prefix) + 1, Len(s)) ELSE s

\* bytes.Index: 0-based offset of the first occurrence of sep in s, -1 if none.
Index(s, sep) ==
    LET n == Len(sep)
        at == {i \in 0..(Len(s) - n) : SubSeq(s, i + 1, i + n) = sep}
    IN  IF at = {} THEN -1 ELSE CHOOSE i \in at : \A j \in at : i <= j

\* strings.Join(list, "")
RECURSIVE Join(_)
Join(list) ==
    IF Len(list) = 0 THEN <<>> ELSE Head(list) \o Join(Tail(list))

\* Number of (possibly overlapping) occurrences of sep in s; bytes.Count for
\* separators that cannot overlap themselves.
Count(s, sep) ==
    Cardinality({i \in 0..(Len(s) - Len(sep)) : SubSeq(s, i + 1, i + Len(sep)) = sep})

\* ------------------------------------------------------------- parse nodes
\* parse.Node, one record shape for every kind:
\*   Text      text
\*   Action    {{.Theme}}
\*   Template  {{template "name"}}
\*   If / Range / With   list (List), elseList (ElseList)
TextNode(t) ==
    [kind |-> "Text", text |-> t, name |-> <<>>, list |-> <<>>, elseList |-> <<>>]
ActionNode ==
    [kind |-> "Action", text |-> <<>>, name |-> <<>>, list |-> <<>>, elseList |-> <<>>]
TemplateNode(n) ==
    [kind |-> "Template", text |-> <<>>, name |-> n, list |-> <<>>, elseList |-> <<>>]
IfNode(l, e) ==
    [kind |-> "If", text |-> <<>>, name |-> <<>>, list |-> l, elseList |-> e]
RangeNode(l, e) ==
    [kind |-> "Range", text |-> <<>>, name |-> <<>>, list |-> l, elseList |-> e]
WithNode(l, e) ==
    [kind |-> "With", text |-> <<>>, name |-> <<>>, list |-> l, elseList |-> e]

Branching == {"If", "Range", "With"}

\* ------------------------------------------------------------- classifier
\* The switch of Parse: kind of a template name, "" when it is not static.
ClassifyAnywhere(name) ==
    IF \E i \in 1..Len(name) : name[i] = PrefixCSS[1] THEN "css"
    ELSE IF \E i \in 1..Len(name) : name[i] = PrefixJS[1] THEN "js"
    ELSE ""

Classify(name) ==
    IF HasPrefix(name, PrefixCSS) THEN "css"
    ELSE IF HasPrefix(name, PrefixJS) THEN "js"
    ELSE ""

Suffix(name) ==
    IF Classify(name) = "css" THEN TrimPrefix(name, PrefixCSS)
    ELSE TrimPrefix(name, PrefixJS)

Ext(name) == IF Classify(name) = "css" THEN <<".css">> ELSE <<".js">>

\* suffix + ext
Filename(name) == Suffix(name) \o Ext(name)

\* The <link> / <script> tag of a static definition.
Tag(name, prefix) ==
    IF Classify(name) = "css"
    THEN <<"<link rel=\"stylesheet\" href=\"">> \o prefix \o <<"/">>
             \o Suffix(name) \o Ext(name) \o <<"\">">>
    ELSE <<"<script src=\"">> \o prefix \o <<"/">>
             \o Suffix(name) \o Ext(name) \o <<"\"></script>">>

\* filepath.Join(outputDir, filename) for the output directory "out" and a
\* file name without path separators.
JoinPath(filename) == <<"out", "/">> \o filename

\* ------------------------------------------------------------- tree walks
\* walkTree: the nodes fn is called with, in visiting order (the node itself,
\* then List, then ElseList of an if / range / with node).
RECURSIVE WalkNoElse(_)
WalkNoElse(list) ==
    IF Len(list) = 0 THEN <<>>
    ELSE LET n == Head(list)
             below == IF n.kind \in Branching THEN WalkNoElse(n.list) ELSE <<>>
         IN  <<n>> \o below \o WalkNoElse(Tail(list))

RECURSIVE walkTree(_)
walkTree(list) ==
    IF Len(list) = 0 THEN <<>>
    ELSE LET n == Head(list)
             below == IF n.kind \in Branching
                      THEN walkTree(n.list) \o walkTree(n.elseList)
                      ELSE <<>>
         IN  <<n>> \o below \o walkTree(Tail(list))

\* The callback of findPlacedTemplates: names of the {{template}} nodes of a
\* tree whose target carries a static prefix.
PlacedIn(list) ==
    {(walkTree(list))[i].name : i \in {j \in 1..Len(walkTree(list)) :
        /\ (walkTree(list))[j].kind = "Template"
        /\ \/ HasPrefix((walkTree(list))[j].name, PrefixCSS)
           \/ HasPrefix((walkTree(list))[j].name, PrefixJS)}}

\* findPlacedTemplates(t): h is the heap, ns the template set of t.
findPlacedTemplates(h, ns) ==
    UNION {PlacedIn(h[ns[n]]) : n \in DOMAIN ns}

\* The splice of injectInList:
\*   append(n.Text[:i], append([]byte(tags), n.Text[i:]...)...)
Splice(text, i, tags) ==
    SubSeq(text, 1, i) \o tags \o SubSeq(text, i + 1, Len(text))

\* injectInList(list, tags): found = the boolean it returns, list = the nodes
\* of the list after the call (one text node changed when found).
RECURSIVE InjectEvery(_, _)
InjectEvery(list, tags) ==
    IF Len(list) = 0 THEN [found |-> FALSE, list |-> <<>>]
    ELSE LET n == Head(list)
             rest == InjectEvery(Tail(list), tags)
             here ==
                 IF n.kind = "Text"
                 THEN IF Index(n.text, CloseHead) >= 0
                      THEN [found |-> TRUE,
                            node |-> [n EXCEPT !.text =
                                Splice(n.text, Index(n.text, CloseHead), tags)]]
                      ELSE [found |-> FALSE, node |-> n]
                 ELSE IF n.kind \in Branching
                 THEN LET a == InjectEvery(n.list, tags)
                          b == InjectEvery(n.elseList, tags)
                      IN  [found |-> a.found \/ b.found,
                           node |-> [n EXCEPT !.list = a.list, !.elseList = b.list]]
                 ELSE [found |-> FALSE, node |-> n]
         IN  [found |-> here.found \/ rest.found,
              list |-> <<here.node>> \o rest.list]

RECURSIVE InjectElseFirst(_, _)
InjectElseFirst(list, tags) ==
    IF Len(list) = 0 THEN [found |-> FALSE, list |-> <<>>]
    ELSE LET n == Head(list)
             here ==
                 IF n.kind = "Text"
                 THEN IF Index(n.text, CloseHead) >= 0
                      THEN [found |-> TRUE,
                            node |-> [n EXCEPT !.text =
                                Splice(n.text, Index(n.text, CloseHead), tags)]]
                      ELSE [found |-> FALSE, node |-> n]
                 ELSE IF n.kind \in Branching
                 THEN LET b == InjectElseFirst(n.elseList, tags)
                      IN  IF b.found
                          THEN [found |-> TRUE, node |-> [n EXCEPT !.elseList = b.list]]
                          ELSE LET a == InjectElseFirst(n.list, tags)
                               IN  [found |-> a.found,
                                    node |-> [n EXCEPT !.list = a.list]]
                 ELSE [found |-> FALSE, node |-> n]
         IN  IF here.found
             THEN [found |-> TRUE, list |-> <<here.node>> \o Tail(list)]
             ELSE LET rest == InjectElseFirst(Tail(list), tags)
                  IN  [found |-> rest.found, list |-> <<n>> \o rest.list]

RECURSIVE injectInList(_, _)
injectInList(list, tags) ==
    IF Len(list) = 0 THEN [found |-> FALSE, list |-> <<>>]
    ELSE LET n == Head(list)
             here ==
                 IF n.kind = "Text"
                 THEN IF Index(n.text, CloseHead) >= 0
                      THEN [found |-> TRUE,
                            node |-> [n EXCEPT !.text =
                                Splice(n.text, Index(n.text, CloseHead), tags)]]
                      ELSE [found |-> FALSE, node |-> n]
                 ELSE IF n.kind \in Branching
                 THEN LET a == injectInList(n.list, tags)
                      IN  IF a.found
                          THEN [found |-> TRUE, node |-> [n EXCEPT !.list = a.list]]
                          ELSE LET b == injectInList(n.elseList, tags)
                               IN  [found |-> b.found,
                                    node |-> [n EXCEPT !.elseList = b.list]]
                 ELSE [found |-> FALSE, node |-> n]
         IN  IF here.found
             THEN [found |-> TRUE, list |-> <<here.node>> \o Tail(list)]
             ELSE LET rest == injectInList(Tail(list), tags)
                  IN  [found |-> rest.found, list |-> <<n>> \o rest.list]

\* injectBeforeCloseHead(t, tags) with t.Templates() enumerated in `order`:
\* the heap after the call.
RECURSIVE injectBeforeCloseHead(_, _, _, _)
injectBeforeCloseHead(h, ns, order, tags) ==
    IF Len(order) = 0 THEN h
    ELSE LET a == ns[Head(order)]
             r == injectInList(h[a], tags)
         IN  IF r.found THEN [h EXCEPT ![a] = r.list]
             ELSE injectBeforeCloseHead(h, ns, Tail(order), tags)

\* ------------------------------------------------------ the template engine
\* The data values Parse is called with: a struct whose Theme field is
\* "dark" or "light", or a struct without that field ("none"), on which
\* every pipeline fails.
DataValues == {"dark", "light", "none"}
\* Truth of the pipeline of {{if}} / {{with}}, length of the one of {{range}}.
Truth(d) == d = "dark"
RangeLen(d) == IF d = "dark" THEN 2 ELSE 0

ExecFail == [ok |-> FALSE, out |-> <<>>]

\* Execution of a node list by the engine: ok = FALSE on an execution error,
\* out = the bytes written.
RECURSIVE ExecList(_, _, _, _, _)
ExecList(h, ns, list, d, depth) ==
    IF Len(list) = 0 THEN [ok |-> TRUE, out |-> <<>>]
    ELSE LET n == Head(list)
             body(l) == ExecList(h, ns, l, d, depth)
             one ==
                 IF n.kind = "Text" THEN [ok |-> TRUE, out |-> n.text]
                 ELSE IF n.kind = "Action"
                 THEN IF d = "none" THEN ExecFail ELSE [ok |-> TRUE, out |-> <<d>>]
                 ELSE IF n.kind = "Template"
                 THEN IF n.name \notin DOMAIN ns \/ depth = 0 THEN ExecFail
                      ELSE ExecList(h, ns, h[ns[n.name]], d, depth - 1)
                 ELSE IF d = "none" THEN ExecFail
                 ELSE IF n.kind = "Range"
                 THEN IF RangeLen(d) = 0 THEN body(n.elseList)
                      ELSE LET r == body(n.list)
                           IN  [ok |-> r.ok,
                                out |-> Join([i \in 1..RangeLen(d) |-> r.out])]
                 ELSE IF Truth(d) THEN body(n.list) ELSE body(n.elseList)
         IN  IF ~one.ok THEN ExecFail
             ELSE LET rest == ExecList(h, ns, Tail(list), d, depth)
                  IN  IF rest.ok THEN [ok |-> TRUE, out |-> one.out \o rest.out]
                      ELSE ExecFail

\* tmpl.Execute(&buf, data) / ExecuteTemplate(&buf, name, data)
Execute(h, ns, name, d) ==
    IF name \notin DOMAIN ns THEN ExecFail
    ELSE ExecList(h, ns, h[ns[name]], d, MaxExecDepth)

\* t.Clone() of html/template: a new template set whose trees are copies
\* (Tree.Copy) stored at the addresses of `owner`.
CloneShared(h, ns, owner) == [heap |-> h, ns |-> ns]

Clone(h, ns, owner) ==
    [heap |-> [a \in DOMAIN h |->
                  IF a[1] = owner /\ a[2] \in DOMAIN ns THEN h[ns[a[2]]] ELSE h[a]],
     ns |-> [n \in DOMAIN ns |-> <<owner, n>>]]

\* parse.IsEmptyTree: only white space.
IsEmptyTree(list) ==
    \A i \in 1..Len(list) :
        /\ list[i].kind = "Text"
        /\ \A k \in 1..Len(list[i].text) : list[i].text[k] \in {" ", "\n"}

\* `{{define "` + name + `"}}` + body + `{{end}}`
RedefText(name, body) ==
    <<"{{define \"">> \o name \o <<"\"}}">> \o body \o <<"{{end}}">>

\* The engine's parse of a text made of {{define}} blocks: the definitions in
\* order, ok = FALSE on a syntax error (an unterminated block, a "{{" inside a
\* body, text outside a block).
RECURSIVE ParseDefs(_)
ParseDefs(text) ==
    IF Len(text) = 0 THEN [ok |-> TRUE, defs |-> <<>>]
    ELSE IF Head(text) # "{{define \"" THEN [ok |-> FALSE, defs |-> <<>>]
    ELSE LET q == Index(text, <<"\"}}">>)
             rest == SubSeq(text, q + 2, Len(text))
             e == Index(rest, <<"{{end}}">>)
             body == SubSeq(rest, 1, e)
         IN  IF q < 0 \/ e < 0 \/ (\E k \in 1..Len(body) : body[k] = "{{")
             THEN [ok |-> FALSE, defs |-> <<>>]
             ELSE LET more == ParseDefs(SubSeq(rest, e + 2, Len(rest)))
                      tree == IF Len(body) = 0 THEN <<>> ELSE <<TextNode(body)>>
                  IN  [ok |-> more.ok,
                       defs |-> <<[name |-> SubSeq(text, 2, q), tree |-> tree]>>
                                    \o more.defs]

\* associate of the engine: whether a parsed definition is installed.  A
\* definition with an empty body does not replace an existing template.
AssociateAlways(ns, name, tree) == TRUE

Associate(ns, name, tree) == ~(name \in DOMAIN ns /\ IsEmptyTree(tree))

\* AddParseTree for each parsed definition: the new tree is stored at a fresh
\* address and the name bound to it.
RECURSIVE AddParseTrees(_, _, _)
AddParseTrees(h, ns, defs) ==
    IF Len(defs) = 0 THEN [heap |-> h, ns |-> ns]
    ELSE LET def == Head(defs)
             a == <<"redef", def.name>>
         IN  IF Associate(ns, def.name, def.tree)
             THEN AddParseTrees([h EXCEPT ![a] = def.tree],
                                (def.name :> a) @@ ns, Tail(defs))
             ELSE AddParseTrees(h, ns, Tail(defs))

\* resultClone.Parse(text)
ParseTemplates(h, ns, text) ==
    LET p == ParseDefs(text)
    IN  IF ~p.ok THEN [ok |-> FALSE, heap |-> h, ns |-> ns]
        ELSE LET r == AddParseTrees(h, ns, p.defs)
             IN  [ok |-> TRUE, heap |-> r.heap, ns |-> r.ns]

\* ------------------------------------------------------------ file system
NoFile == [exists |-> FALSE, content |-> <<>>, mtime |-> 0]

\* What the operating system does to one writeIfChanged call: nothing wrong,
\* MkdirAll fails (only when it has a directory to create), WriteFile fails
\* to open the file, WriteFile fails after it truncated the file.
Faults(fs) == {"ok", "open", "write"} \cup (IF fs.dir THEN {} ELSE {"mkdir"})

\* writeIfChanged(path, content) at time now: the file system after the call
\* and whether it returned an error.
WriteAlways(fs, path, content, fault, now) ==
    IF fault = "mkdir" THEN [fs |-> fs, err |-> TRUE]
    ELSE IF fault = "open" THEN [fs |-> [fs EXCEPT !.dir = TRUE], err |-> TRUE]
    ELSE IF fault = "write"
    THEN [fs |-> [fs EXCEPT !.dir = TRUE, !.files[path] =
                     [exists |-> TRUE, content |-> <<>>, mtime |-> now]],
          err |-> TRUE]
    ELSE [fs |-> [fs EXCEPT !.dir = TRUE, !.files[path] =
                     [exists |-> TRUE, content |-> content, mtime |-> now]],
          err |-> FALSE]

writeIfChanged(fs, path, content, fault, now) ==
    IF fault = "mkdir" THEN [fs |-> fs, err |-> TRUE]
    ELSE IF fs.files[path].exists /\ fs.files[path].content = content
    THEN [fs |-> [fs EXCEPT !.dir = TRUE], err |-> FALSE]
    ELSE IF fault = "open" THEN [fs |-> [fs EXCEPT !.dir = TRUE], err |-> TRUE]
    ELSE IF fault = "write"
    THEN [fs |-> [fs EXCEPT !.dir = TRUE, !.files[path] =
                     [exists |-> TRUE, content |-> <<>>, mtime |-> now]],
          err |-> TRUE]
    ELSE [fs |-> [fs EXCEPT !.dir = TRUE, !.files[path] =
                     [exists |-> TRUE, content |-> content, mtime |-> now]],
          err |-> FALSE]

\* ---------------------------------------------------------------- forests
CssMain == <<"static-css-", "main">>
CssTheme == <<"static-css-", "theme">>
JsApp == <<"static-js-", "app">>
Page == <<"page">>
Greeting == <<"greeting">>
Root == <<"test">>
\* A name that contains a static prefix, but not at its start.
Decoy == <<"non-", "static-css-", "main">>

Css == TextNode(<<"body { color: red; }">>)
Js == TextNode(<<"console.log(\"hi\");">>)
Head1 == TextNode(<<"<head>", "<title>", "</", "head>", "<body>">>)

\* TestParseAutoInject: nothing placed, one </head>.
ForestAuto ==
    (CssMain :> <<Css>>) @@ (JsApp :> <<Js>>)
    @@ (Greeting :> <<TextNode(<<"Hello">>)>>)
    @@ (Page :> <<Head1, TemplateNode(Greeting), TextNode(<<"</", "body>">>)>>)

\* TestParseExplicitPlacement: the CSS is placed in the page, the JS is not;
\* the root template holds only white space.
ForestExplicit ==
    (CssMain :> <<Css>>) @@ (JsApp :> <<Js>>)
    @@ (Root :> <<TextNode(<<"\n">>)>>)
    @@ (Page :> <<TextNode(<<"<head>">>), TemplateNode(CssMain),
                  TextNode(<<"</", "head>", "<body>">>)>>)

\* TestParseWithData, with a second style sheet and a script.
ForestData ==
    (CssTheme :> <<TextNode(<<"/* ">>), ActionNode, TextNode(<<" */">>)>>)
    @@ (CssMain :> <<Css>>) @@ (JsApp :> <<Js>>)
    @@ (Page :> <<TextNode(<<"<head>", "</", "head>">>)>>)

\* No </head> anywhere (a "</" and a "head>" apart do not count).
ForestNoHead ==
    (CssMain :> <<Css>>) @@ (JsApp :> <<Js>>)
    @@ (Decoy :> <<TextNode(<<"head>", "decoy">>)>>)
    @@ (Page :> <<TextNode(<<"<body>">>), TemplateNode(Decoy),
                  TextNode(<<"</", "body>">>)>>)

\* </head> in nested branches, twice in one text node, and a placement in
\* the else branch of a {{with}} inside an {{if}}.
ForestNested ==
    (CssMain :> <<Css>>) @@ (JsApp :> <<Js>>)
    @@ (Page :> <<TextNode(<<"<html>">>),
                  IfNode(<<TextNode(<<"a">>),
                           RangeNode(<<>>, <<TextNode(<<"x", "</", "head>",
                                                        "y", "</", "head>">>)>>)>>,
                         <<TextNode(<<"e", "</", "head>">>),
                           WithNode(<<>>, <<TemplateNode(JsApp)>>)>>),
                  TextNode(<<"</", "head>", "tail">>)>>)

\* A style sheet composed of another one, and placed in the page.
ForestCompose ==
    (CssMain :> <<Css, TemplateNode(CssTheme)>>)
    @@ (CssTheme :> <<TextNode(<<"/* theme */">>)>>)
    @@ (Page :> <<TextNode(<<"<head>">>), TemplateNode(CssMain),
                  TextNode(<<"</", "head>">>)>>)

\* A style sheet composed of another one, and placed nowhere.
ForestBundle ==
    (CssMain :> <<Css, TemplateNode(CssTheme)>>)
    @@ (CssTheme :> <<TextNode(<<"/* theme */">>)>>)
    @@ (Page :> <<TextNode(<<"<head>", "</", "head>">>)>>)

\* A script whose own text contains </head>.
ForestJsHead ==
    (JsApp :> <<TextNode(<<"document.write('", "</", "head>", "');">>)>>)
    @@ (CssMain :> <<Css>>)
    @@ (Page :> <<Head1>>)

Forests ==
    {ForestAuto, ForestExplicit, ForestData, ForestNoHead, ForestNested,
     ForestCompose, ForestBundle, ForestJsHead}

\* The urlPrefix values: a plain one, and one that makes the redefinition
\* text of a placed definition unparsable.
UrlStatic == <<"/static">>
UrlBraces == <<"{{">>

\* The (template, urlPrefix) pairs Parse is called with.
Inputs ==
    (Forests \X {UrlStatic}) \cup ({ForestExplicit, ForestCompose} \X {UrlBraces})

AllNames == UNION {DOMAIN F : F \in Forests}
Owners == {"orig", "render", "result", "redef"}
Addr == Owners \X AllNames
\* The paths of outputDir a call can name.
AllPaths ==
    {<<"out", "/">> \o TrimPrefix(TrimPrefix(n, PrefixCSS), PrefixJS) \o <<e>> :
        n \in AllNames, e \in {".css", ".js"}}

\* The orders in which Templates() can enumerate a template set.
Perms(S) ==
    {p \in [1..Cardinality(S) -> S] :
        \A i, j \in 1..Cardinality(S) : i # j => p[i] # p[j]}


\* ------------------------------------------------------------------ state
VARIABLES
    heap,          \* address -> parse tree
    orig,          \* the caller's template t: name -> address
    origExecuted,  \* the caller has executed t (it can no longer be cloned)
    urlPrefix,     \* the urlPrefix argument
    data,          \* the data argument of the current call
    fs,            \* outputDir: dir = it exists, files = path -> file
    calls,         \* number of Parse calls started; the time stamp of a write
    pc,            \* position of Parse: idle, render, write, inject, done
    ret,           \* what Parse returned: forest (<<>> is nil) and err
    renderClone,   \* name -> address
    resultClone,   \* name -> address
    todo,          \* names of renderClone.Templates() not yet visited
    statics,       \* []staticDef
    idx,           \* index in statics of the second loop
    placed,        \* set of names
    redefs,        \* []string
    autoCSS,       \* []string
    autoJS,        \* []string
    enum,          \* the order injectBeforeCloseHead enumerated the set in
    fsStart        \* fs when the current call started

vars ==
    <<heap, orig, origExecuted, urlPrefix, data, fs, calls, pc, ret,
      renderClone, resultClone, todo, statics, idx, placed, redefs, autoCSS,
      autoJS, enum, fsStart>>

locals == <<renderClone, resultClone, todo, statics, idx, placed, redefs,
            autoCSS, autoJS, enum>>

NoForest == <<>>
Running == [forest |-> NoForest, err |-> ""]

Init ==
    \E input \in Inputs :
      LET F == input[1]
          u == input[2]
      IN
        /\ heap = [a \in Addr |->
                      IF a[1] = "orig" /\ a[2] \in DOMAIN F THEN F[a[2]] ELSE <<>>]
        /\ orig = [n \in DOMAIN F |-> <<"orig", n>>]
        /\ origExecuted = FALSE
        /\ urlPrefix = u
        /\ data = "none"
        /\ fs = [dir |-> FALSE, files |-> [p \in AllPaths |-> NoFile]]
        /\ calls = 0
        /\ pc = "idle"
        /\ ret = Running
        /\ renderClone = <<>>
        /\ resultClone = <<>>
        /\ todo = {}
        /\ statics = <<>>
        /\ idx = 1
        /\ placed = {}
        /\ redefs = <<>>
        /\ autoCSS = <<>>
        /\ autoJS = <<>>
        /\ enum = <<>>
        /\ fsStart = fs

\* `return nil, err`
FailWithForest(kind) ==
    /\ ret' = [forest |-> resultClone, err |-> kind]
    /\ pc' = "done"

Fail(kind) ==
    /\ ret' = [forest |-> NoForest, err |-> kind]
    /\ pc' = "done"

\* The trees of the clones of the previous call are garbage.
Collected(h) == [a \in DOMAIN h |-> IF a[1] = "orig" THEN h[a] ELSE <<>>]

\* Parse, lines 114-119: the call and the first clone.
ParseStart(d) ==
    /\ pc \in {"idle", "done"}
    /\ calls < MaxCalls
    /\ calls' = calls + 1
    /\ data' = d
    /\ fsStart' = fs
    /\ resultClone' = <<>>
    /\ statics' = <<>>
    /\ idx' = 1
    /\ placed' = {}
    /\ redefs' = <<>>
    /\ autoCSS' = <<>>
    /\ autoJS' = <<>>
    /\ enum' = <<>>
    /\ IF origExecuted
       THEN /\ heap' = Collected(heap)
            /\ renderClone' = <<>>
            /\ todo' = {}
            /\ Fail("clone")
       ELSE LET c == Clone(Collected(heap), orig, "render")
            IN  /\ heap' = c.heap
                /\ renderClone' = c.ns
                /\ todo' = DOMAIN c.ns
                /\ ret' = Running
                /\ pc' = "render"
    /\ UNCHANGED <<orig, origExecuted, urlPrefix, fs>>

\* Parse, lines 130-159, the body of the first loop for one template:
\* skip = the name is not static, ok = Execute succeeded, def = the staticDef.
RenderIgnoringErr(h, ns, name, d, prefix) ==
    [skip |-> Classify(name) = "",
     ok |-> TRUE,
     def |-> [name |-> name,
              filename |-> Filename(name),
              tag |-> Tag(name, prefix),
              content |-> Execute(h, ns, name, d).out,
              isCSS |-> Classify(name) = "css"]]

renderStatic(h, ns, name, d, prefix) ==
    [skip |-> Classify(name) = "",
     ok |-> Execute(h, ns, name, d).ok,
     def |-> [name |-> name,
              filename |-> Filename(name),
              tag |-> Tag(name, prefix),
              content |-> Execute(h, ns, name, d).out,
              isCSS |-> Classify(name) = "css"]]

\* Parse, lines 129-160: one iteration of the loop over
\* renderClone.Templates(), which enumerates in any order.
RenderStep ==
    /\ pc = "render"
    /\ \E name \in todo :
        LET r == renderStatic(heap, renderClone, name, data, urlPrefix)
        IN  IF r.skip
            THEN /\ todo' = todo \ {name}
                 /\ UNCHANGED <<statics, ret, pc>>
            ELSE IF ~r.ok
            THEN /\ Fail("render")
                 /\ UNCHANGED <<statics, todo>>
            ELSE /\ statics' = Append(statics, r.def)
                 /\ todo' = todo \ {name}
                 /\ UNCHANGED <<ret, pc>>
    /\ UNCHANGED <<heap, orig, origExecuted, urlPrefix, data, fs, calls,
                   renderClone, resultClone, idx, placed, redefs, autoCSS,
                   autoJS, enum, fsStart>>

\* Parse, lines 162-172: the second clone and findPlacedTemplates.
CloneResult ==
    /\ pc = "render"
    /\ todo = {}
    /\ IF origExecuted
       THEN /\ Fail("clone")
            /\ UNCHANGED <<heap, resultClone, placed>>
       ELSE LET c == Clone(heap, orig, "result")
            IN  /\ heap' = c.heap
                /\ resultClone' = c.ns
                /\ placed' = findPlacedTemplates(c.heap, c.ns)
                /\ pc' = "write"
                /\ UNCHANGED ret
    /\ UNCHANGED <<orig, origExecuted, urlPrefix, data, fs, calls, renderClone,
                   todo, statics, idx, redefs, autoCSS, autoJS, enum, fsStart>>

\* Parse, lines 177-188: the redefinition of one static definition, and
\* whether its tag is collected for the injection.
RedefineAllToTag(s, isPlaced) ==
    [redef |-> RedefText(s.name, s.tag), auto |-> ~isPlaced]

redefine(s, isPlaced) ==
    IF isPlaced
    THEN [redef |-> RedefText(s.name, s.tag), auto |-> FALSE]
    ELSE [redef |-> RedefText(s.name, <<>>), auto |-> TRUE]

\* Parse, lines 173-189: one iteration of the loop over statics.
WriteStep ==
    /\ pc = "write"
    /\ idx <= Len(statics)
    /\ \E fault \in Faults(fs) :
        LET s == statics[idx]
            w == writeIfChanged(fs, JoinPath(s.filename), s.content,
                                fault, calls)
            r == redefine(s, s.name \in placed)
        IN  /\ fs' = w.fs
            /\ IF w.err
               THEN /\ Fail("fs")
                    /\ UNCHANGED <<idx, redefs, autoCSS, autoJS>>
               ELSE /\ idx' = idx + 1
                    /\ redefs' = Append(redefs, r.redef)
                    /\ autoCSS' = IF r.auto /\ s.isCSS
                                  THEN Append(autoCSS, s.tag) ELSE autoCSS
                    /\ autoJS' = IF r.auto /\ ~s.isCSS
                                 THEN Append(autoJS, s.tag) ELSE autoJS
                    /\ UNCHANGED <<ret, pc>>
    /\ UNCHANGED <<heap, orig, origExecuted, urlPrefix, data, calls,
                   renderClone, resultClone, todo, statics, placed, enum,
                   fsStart>>

\* Parse, lines 191-195: the redefinitions are parsed into resultClone.
Redefine ==
    /\ pc = "write"
    /\ idx > Len(statics)
    /\ IF Len(redefs) > 0
       THEN LET p == ParseTemplates(heap, resultClone, Join(redefs))
            IN  IF ~p.ok
                THEN /\ Fail("parse")
                     /\ UNCHANGED <<heap, resultClone>>
                ELSE /\ heap' = p.heap
                     /\ resultClone' = p.ns
                     /\ pc' = "inject"
                     /\ UNCHANGED ret
       ELSE /\ pc' = "inject"
            /\ UNCHANGED <<heap, resultClone, ret>>
    /\ UNCHANGED <<orig, origExecuted, urlPrefix, data, fs, calls, renderClone,
                   todo, statics, idx, placed, redefs, autoCSS, autoJS, enum,
                   fsStart>>

\* strings.Join(append(autoCSS, autoJS...), "")
AutoTagsJsFirst(css, js) == Join(js \o css)

AutoTags(css, js) == Join(css \o js)

\* Parse, lines 197-203: the injection and the return.
Inject ==
    /\ pc = "inject"
    /\ IF AutoTags(autoCSS, autoJS) # <<>>
       THEN \E order \in Perms(DOMAIN resultClone) :
                /\ enum' = order
                /\ heap' = injectBeforeCloseHead(heap, resultClone, order,
                                                 AutoTags(autoCSS, autoJS))
       ELSE UNCHANGED <<heap, enum>>
    /\ ret' = [forest |-> resultClone, err |-> ""]
    /\ pc' = "done"
    /\ UNCHANGED <<orig, origExecuted, urlPrefix, data, fs, calls, renderClone,
                   resultClone, todo, statics, idx, placed, redefs, autoCSS,
                   autoJS, fsStart>>

\* The caller executes the original template (as the tests do after Parse).
CallerExecute ==
    /\ pc \in {"idle", "done"}
    /\ ~origExecuted
    /\ origExecuted' = TRUE
    /\ UNCHANGED <<heap, orig, urlPrefix, data, fs, calls, pc, ret, fsStart>>
    /\ UNCHANGED locals

Next ==
    \/ \E d \in DataValues : ParseStart(d)
    \/ RenderStep
    \/ CloneResult
    \/ WriteStep
    \/ Redefine
    \/ Inject
    \/ CallerExecute

Spec == Init /\ [][Next]_vars

\* =================================================================== claims
\* Notions of the specification, stated apart from the operators above.

\* Kind of a name by its naming convention: "css", "js" or "" (no static).
SpecKind(name) ==
    IF Len(name) > 0 /\ name[1] = "static-css-" THEN "css"
    ELSE IF Len(name) > 0 /\ name[1] = "static-js-" THEN "js"
    ELSE ""

\* {urlPrefix}/{stem}.css in a <link>, {urlPrefix}/{stem}.js in a <script>.
SpecTag(name) ==
    IF SpecKind(name) = "css"
    THEN <<"<link rel=\"stylesheet\" href=\"">> \o urlPrefix \o <<"/">>
             \o Tail(name) \o <<".css", "\">">>
    ELSE <<"<script src=\"">> \o urlPrefix \o <<"/">>
             \o Tail(name) \o <<".js", "\"></script>">>

\* outputDir/stem.{css,js}
SpecPath(name) ==
    <<"out", "/">> \o Tail(name)
        \o (IF SpecKind(name) = "css" THEN <<".css">> ELSE <<".js">>)

\* The text nodes of a tree, depth first, a body before its else body.
RECURSIVE Texts(_)
Texts(list) ==
    IF Len(list) = 0 THEN <<>>
    ELSE (IF Head(list).kind = "Text" THEN <<Head(list).text>>
          ELSE Texts(Head(list).list) \o Texts(Head(list).elseList))
         \o Texts(Tail(list))

\* A tree with the text of every text node blanked.
RECURSIVE Skeleton(_)
Skeleton(list) ==
    [i \in 1..Len(list) |->
        [list[i] EXCEPT !.text = <<>>,
                        !.list = Skeleton(list[i].list),
                        !.elseList = Skeleton(list[i].elseList)]]

\* The tree has an invocation node {{template "name"}}, at any depth.
RECURSIVE Mentions(_, _)
Mentions(list, name) ==
    \E i \in 1..Len(list) :
        \/ list[i].kind = "Template" /\ list[i].name = name
        \/ Mentions(list[i].list, name)
        \/ Mentions(list[i].elseList, name)

Contains(s, sep) == \E i \in 0..(Len(s) - Len(sep)) : SubSeq(s, i + 1, i + Len(sep)) = sep

OrigTree(n) == heap[orig[n]]
RetTree(n) == heap[ret.forest[n]]
OrigView == [n \in DOMAIN orig |-> heap[orig[n]]]
StaticNames == {n \in DOMAIN orig : SpecKind(n) # ""}
\* The static names that some tree of the caller's template invokes.
Invoked == {n \in StaticNames : \E m \in DOMAIN orig : Mentions(OrigTree(m), n)}
Succeeded == pc = "done" /\ ret.err = ""
Failed == pc = "done" /\ ret.err # ""
\* What executing the caller's static definition gives with the call's data.
Rendered(n) == ExecList(heap, orig, OrigTree(n), data, MaxExecDepth)

\* C1: no step of Parse, in a call that succeeds or in one that fails,
\* changes a tree of the caller's template or the set of its trees (so that
\* executing it gives the same bytes before and after).
NonMutation == [][orig' = orig /\ OrigView' = OrigView]_vars

\* C1 witness: a call has returned a forest that differs from the caller's.
NonMutationWitness ==
    /\ Succeeded
    /\ \E n \in DOMAIN orig : RetTree(n) # OrigTree(n)

\* Offset of the first occurrence of sep in s, which contains it.
FirstAt(s, sep) ==
    CHOOSE i \in 0..(Len(s) - Len(sep)) :
        /\ SubSeq(s, i + 1, i + Len(sep)) = sep
        /\ \A j \in 0..(i - 1) : SubSeq(s, j + 1, j + Len(sep)) # sep

\* The text nodes of the returned forest and of the caller's: tree name ->
\* texts; a text node is <<tree name, index in the texts of the tree>>.
RetTexts == [m \in DOMAIN ret.forest |-> Texts(RetTree(m))]
OrigTexts == [m \in DOMAIN orig |-> Texts(OrigTree(m))]
Nodes(texts) == UNION {{<<m, i>> : i \in 1..Len(texts[m])} : m \in DOMAIN texts}

\* Executing tree m of the returned forest outputs the tag of n once for each
\* time it executes an invocation of n, and nowhere else.
TagOnlyAtSites(m, n, d) ==
    \A shown \in {Execute(heap, ret.forest, m, d)} :
        shown.ok =>
            Count(shown.out, SpecTag(n)) =
                Count(Execute([heap EXCEPT ![ret.forest[n]] = <<TextNode(<<"@site">>)>>],
                              ret.forest, m, d).out,
                      <<"@site">>)

\* The invocation of n in tree m is still there in the returned forest, the
\* tree n emits the tag and nothing else, and no text node of another tree
\* has the tag (it was not injected).
PlacedAt(m, n) ==
    /\ Mentions(RetTree(m), n)
    /\ RetTree(n) = <<TextNode(SpecTag(n))>>
    /\ \A rt \in {RetTexts} : \A node \in Nodes(rt) :
           node[1] # n => ~Contains(rt[node[1]][node[2]], SpecTag(n))
    /\ \A d \in DataValues : TagOnlyAtSites(m, n, d)

CssTags == {SpecTag(n) : n \in {m \in StaticNames : SpecKind(m) = "css"}}
JsTags == {SpecTag(n) : n \in {m \in StaticNames : SpecKind(m) = "js"}}
\* The forest has static CSS and JS trees and invokes none of them.
AutoCase == CssTags # {} /\ JsTags # {} /\ Invoked = {}
\* Some text node of the caller's forest contains </head>.
HasMarker ==
    \E m \in DOMAIN orig : \E i \in 1..Len(Texts(OrigTree(m))) :
        Contains(Texts(OrigTree(m))[i], CloseHead)
\* The strings made of every CSS tag, then every JS tag, then </head>.
Blocks ==
    {Join(c) \o Join(j) \o CloseHead : c \in Perms(CssTags), j \in Perms(JsTags)}

FileHolds(n) ==
    /\ fs.files[SpecPath(n)].exists
    /\ fs.files[SpecPath(n)].content = Rendered(n).out

\* When the call began, the file of static tree n held what n renders to.
FileHeld(n) ==
    /\ fsStart.files[SpecPath(n)].exists
    /\ \A r \in {Rendered(n)} : r.ok /\ fsStart.files[SpecPath(n)].content = r.out

\* C4: after a successful Parse every static tree has its file at
\* outputDir/stem.css or outputDir/stem.js, holding exactly the bytes that
\* executing the tree with the caller's data gives, and the call has written
\* no file but those of the static trees.
FileOutput ==
    Succeeded =>
        /\ \A n \in StaticNames : FileHolds(n)
        /\ \A p \in AllPaths :
               fs.files[p] # fsStart.files[p] => \E n \in StaticNames : SpecPath(n) = p

\* C4 witness: scenario B, the theme style sheet rendered with Theme = dark,
\* in a forest that also has a tree whose name only contains a static prefix.
FileOutputWitness ==
    /\ Succeeded
    /\ data = "dark"
    /\ CssTheme \in StaticNames
    /\ fs.files[<<"out", "/", "theme", ".css">>].content = <<"/* ", "dark", " */">>

\* C5: a call that finds every static tree's file with the content the tree
\* renders to (as a second call with the same input does) writes no file:
\* every file keeps its content and its modification time; and a successful
\* call writes the file of a static tree exactly when the file is missing or
\* its content differs from what the tree renders to, leaving every other
\* file as it was.
IdempotentWrites ==
    /\ pc # "idle" /\ fs.files # fsStart.files
           => \E n \in StaticNames : ~FileHeld(n)
    /\ Succeeded =>
           \A p \in AllPaths :
               IF \E n \in StaticNames : SpecPath(n) = p /\ ~FileHeld(n)
               THEN fs.files[p].exists /\ fs.files[p].mtime = calls
               ELSE fs.files[p] = fsStart.files[p]

\* C5 witness: the second call succeeded with changed content for one style
\* sheet only: its file is from the second call, the two other files, for
\* which the input was the same, are still those of the first call.
IdempotentWritesWitness ==
    /\ Succeeded /\ calls = 2
    /\ {CssTheme, CssMain, JsApp} \subseteq StaticNames
    /\ fs.files[SpecPath(CssTheme)].mtime = 2
    /\ fs.files[SpecPath(CssMain)].mtime = 1
    /\ fs.files[SpecPath(JsApp)].mtime = 1

\* C6: outputDir is untouched as long as a static tree is still to be
\* executed; and when the execution of a static tree fails, Parse returns the
\* render error and no forest, with outputDir as it was when the call began.
RenderBeforeWrite ==
    /\ fs # fsStart =>
           /\ todo = {}
           /\ {statics[i].name : i \in 1..Len(statics)} = StaticNames
    /\ pc = "done" /\ ret.err # "clone" /\ (\E n \in StaticNames : ~Rendered(n).ok) =>
           /\ ret.err = "render"
           /\ ret.forest = NoForest
           /\ fs = fsStart

\* C6 witness: a call failed on a render error after it had executed another
\* static tree, with files of an earlier call in outputDir.
RenderBeforeWriteWitness ==
    /\ pc = "done" /\ ret.err = "render"
    /\ Len(statics) >= 1
    /\ \E p \in AllPaths : fs.files[p].exists

\* C7: a call that returns an error returns no forest; and after a file
\* system error on the k-th static definition the files of the definitions
\* before it hold their content and the files of those after it are as they
\* were when the call began.
NoForestNoRollback ==
    /\ Failed => ret.forest = NoForest
    /\ pc = "done" /\ ret.err = "fs" =>
           \A i \in 1..Len(statics) :
               /\ i < idx =>
                      /\ fs.files[SpecPath(statics[i].name)].exists
                      /\ fs.files[SpecPath(statics[i].name)].content = statics[i].content
               /\ i > idx =>
                      fs.files[SpecPath(statics[i].name)]
                          = fsStart.files[SpecPath(statics[i].name)]

\* C7 witness: a file system error on the second of three static
\* definitions, the first one written by this call, the third one not.
NoForestNoRollbackWitness ==
    /\ pc = "done" /\ ret.err = "fs"
    /\ idx = 2 /\ Len(statics) = 3
    /\ fs.files[SpecPath(statics[1].name)].mtime = calls
    /\ ~fs.files[SpecPath(statics[3].name)].exists

\* C8: when no text node of the forest contains the closing head marker, a
\* successful Parse has written every static tree's file, and the tag of a
\* static tree that no tree invokes is in the output of no tree of the
\* returned forest.
MissingHead ==
    Succeeded /\ ~HasMarker =>
        /\ \A n \in StaticNames : FileHolds(n)
        /\ \A n \in StaticNames \ Invoked : \A m \in DOMAIN ret.forest :
               \A d \in DataValues : \A o \in {Execute(heap, ret.forest, m, d)} :
                   o.ok => ~Contains(o.out, SpecTag(n))

\* C8 witness: Parse succeeded on a forest without the marker, with tags to
\* inject.
MissingHeadWitness ==
    /\ Succeeded /\ ~HasMarker
    /\ StaticNames \ Invoked # {}
    /\ AutoTags(autoCSS, autoJS) # <<>>

\* The text nodes of non-static trees that differ between the texts ot of
\* the caller's forest and the texts rt of the returned one.
ChangedTexts(ot, rt) ==
    {node \in Nodes(rt) :
        /\ node[1] \notin StaticNames
        /\ rt[node[1]][node[2]] # ot[node[1]][node[2]]}

\* new is old with ins inserted at some offset.
Inserted(old, new, ins) ==
    \E k \in 0..Len(old) : new = SubSeq(old, 1, k) \o ins \o SubSeq(old, k + 1, Len(old))

\* C9: the forest a successful Parse returns has the trees of the original;
\* a tree that is not static has the node structure it had, but for at most
\* one text node in the whole forest, which is its original with the
\* deferred-tag string inserted; no text node is changed when that string is
\* empty.
NonStaticUnchanged ==
    Succeeded =>
        /\ DOMAIN ret.forest = DOMAIN orig
        /\ \A m \in DOMAIN orig \ StaticNames :
               Skeleton(RetTree(m)) = Skeleton(OrigTree(m))
        /\ \A ot \in {OrigTexts} : \A rt \in {RetTexts} :
           \A tags \in {AutoTags(autoCSS, autoJS)} :
           \A holders \in {{node \in Nodes(rt) :
                               tags # <<>> /\ Contains(rt[node[1]][node[2]], tags)}} :
               /\ \A m \in DOMAIN orig \ StaticNames : Len(rt[m]) = Len(ot[m])
               /\ Cardinality(holders) <= 1
               /\ ChangedTexts(ot, rt) \subseteq holders
               /\ \A node \in ChangedTexts(ot, rt) :
                      Inserted(ot[node[1]][node[2]], rt[node[1]][node[2]], tags)

\* C9 witness: Parse succeeded on a forest with several text nodes that
\* contain the marker, and changed one of them.
NonStaticUnchangedWitness ==
    /\ Succeeded
    /\ ChangedTexts(OrigTexts, RetTexts) # {}
    /\ \E m \in DOMAIN orig :
           Cardinality({i \in 1..Len(Texts(OrigTree(m))) :
               Contains(Texts(OrigTree(m))[i], CloseHead)}) >= 2

\* Least element of a non-empty set of numbers.
Least(S) == CHOOSE x \in S : \A y \in S : x <= y

\* Indexes, in Texts, of the text nodes of a tree that contain the marker.
Marked(list) ==
    {i \in 1..Len(Texts(list)) : Contains(Texts(list)[i], CloseHead)}

\* ts with the tags inserted right before the first marker of its i-th text.
SplicedAt(ts, i, tags) ==
    [ts EXCEPT ![i] = SubSeq(ts[i], 1, FirstAt(ts[i], CloseHead)) \o tags
                          \o SubSeq(ts[i], FirstAt(ts[i], CloseHead) + 1, Len(ts[i]))]

\* The step of the Head Injector: with the forest enumerated in the order
\* enum', the first tree with a text node that contains the marker has its
\* first such node (depth first, a body before its else body) changed: the
\* tags are inserted right before the first marker of the node; nothing else
\* changes.
SpliceStep ==
    pc = "inject" /\ pc' = "done" /\ AutoTags(autoCSS, autoJS) # <<>> =>
        /\ Len(enum') = Cardinality(DOMAIN resultClone)
        /\ {enum'[k] : k \in 1..Len(enum')} = DOMAIN resultClone
        /\ \A cand \in {{k \in 1..Len(enum') : Marked(heap[resultClone[enum'[k]]]) # {}}} :
               IF cand = {} THEN heap' = heap
               ELSE \A a \in {resultClone[enum'[Least(cand)]]} :
                        /\ Texts(heap'[a]) =
                               SplicedAt(Texts(heap[a]), Least(Marked(heap[a])),
                                         AutoTags(autoCSS, autoJS))
                        /\ Skeleton(heap'[a]) = Skeleton(heap[a])
                        /\ \A b \in DOMAIN heap \ {a} : heap'[b] = heap[b]

\* C10: a non-empty deferred-tag string is spliced into the first text node
\* that contains the closing head marker (first by enumeration order of the
\* forest, then depth first, a body before its else body), immediately before
\* the first marker of that node, the text around it kept.
SpliceLocation == [][SpliceStep]_vars

\* C10 witness: the tags went into a text node that has two markers and lies
\* in the else body of a loop inside a conditional, before the first marker.
SpliceLocationWitness ==
    /\ Succeeded
    /\ \E m \in DOMAIN orig : \E i \in 1..Len(RetTree(m)) :
           /\ RetTree(m)[i].kind = "If"
           /\ \E j \in 1..Len(RetTree(m)[i].list) :
                  /\ RetTree(m)[i].list[j].kind = "Range"
                  /\ \E t \in {RetTree(m)[i].list[j].elseList[1].text} :
                         /\ Count(t, CloseHead) = 2
                         /\ Contains(t, AutoTags(autoCSS, autoJS) \o CloseHead)
                         /\ FirstAt(t, AutoTags(autoCSS, autoJS)) < FirstAt(t, CloseHead)

\* The text of the text nodes of the caller's static tree n: its raw content.
RawTexts(n) == {Texts(OrigTree(n))[i] : i \in 1..Len(Texts(OrigTree(n)))}

\* The body of static tree n in the returned forest is its tag alone when n
\* is in the placement set, and empty otherwise.
Redefined(n) ==
    RetTree(n) = IF n \in Invoked THEN <<TextNode(SpecTag(n))>> ELSE <<>>

\* C11: in the forest a successful Parse returns, the body of every static
\* tree is a single text node equal to its tag when the tree is in the
\* placement set and empty otherwise, and executing a tree of the returned
\* forest never outputs the raw content of a static tree.
UnconditionalRedefinition ==
    Succeeded =>
        /\ \A n \in StaticNames : Redefined(n)
        /\ \A m \in DOMAIN ret.forest : \A d \in DataValues :
               \A o \in {Execute(heap, ret.forest, m, d)} :
                   o.ok => \A n \in StaticNames : \A raw \in RawTexts(n) :
                               ~Contains(o.out, raw)

\* One enumeration order of a set of names, the same one each time.
OneOrder(S) == CHOOSE p \in Perms(S) : TRUE

\* The staticDefs the first loop of Parse collects when the forest is
\* enumerated in `order`.
RECURSIVE StaticsIn(_)
StaticsIn(order) ==
    IF Len(order) = 0 THEN <<>>
    ELSE LET r == renderStatic(heap, orig, Head(order), data, urlPrefix)
         IN  IF r.skip THEN StaticsIn(Tail(order))
             ELSE <<r.def>> \o StaticsIn(Tail(order))

\* The tags of the staticDefs of one kind that are collected for injection.
RECURSIVE AutoIn(_, _, _)
AutoIn(sts, pl, css) ==
    IF Len(sts) = 0 THEN <<>>
    ELSE (IF redefine(Head(sts), Head(sts).name \in pl).auto /\ Head(sts).isCSS = css
          THEN <<Head(sts).tag>> ELSE <<>>)
         \o AutoIn(Tail(sts), pl, css)

\* The deferred-tag string of a call that enumerates the forest in `order`.
TagsIn(order) ==
    AutoTags(AutoIn(StaticsIn(order), Invoked, TRUE),
             AutoIn(StaticsIn(order), Invoked, FALSE))

\* The forest (name -> tree) a successful call returns when every
\* enumeration of the forest is in `order`.
ForestIn(order) ==
    LET c == Clone(heap, orig, "result")
        sts == StaticsIn(order)
        pl == findPlacedTemplates(c.heap, c.ns)
        text == Join([i \in 1..Len(sts) |-> redefine(sts[i], sts[i].name \in pl).redef])
        p == IF Len(sts) > 0 THEN ParseTemplates(c.heap, c.ns, text)
             ELSE [ok |-> TRUE, heap |-> c.heap, ns |-> c.ns]
        tags == AutoTags(AutoIn(sts, pl, TRUE), AutoIn(sts, pl, FALSE))
        h == IF tags # <<>> THEN injectBeforeCloseHead(p.heap, p.ns, order, tags)
             ELSE p.heap
    IN  [n \in DOMAIN p.ns |-> h[p.ns[n]]]

\* The forest the call returned, name -> tree.
RetView == [n \in DOMAIN ret.forest |-> RetTree(n)]

\* The files a successful call leaves: the file of a static tree holds what
\* the tree renders to, written by this call unless it held that already.
FilesLeft ==
    [p \in AllPaths |->
        IF \E n \in StaticNames : SpecPath(n) = p /\ ~FileHeld(n)
        THEN [exists |-> TRUE,
              content |-> Rendered(CHOOSE n \in StaticNames : SpecPath(n) = p).out,
              mtime |-> calls]
        ELSE fsStart.files[p]]

\* C12: a successful call returns the forest, with the deferred-tag string,
\* that the call returns under one fixed enumeration order of the forest, and
\* leaves the files the input determines; so that two calls with the same
\* forest, data, files and urlPrefix agree, whatever order the engine
\* enumerates the trees in.
Determinism ==
    Succeeded =>
        \A order \in {OneOrder(DOMAIN orig)} :
            /\ fs.files = FilesLeft
            /\ AutoTags(autoCSS, autoJS) = TagsIn(order)
            /\ RetView = ForestIn(order)

====
